---- MODULE Spec2Model ----
(***************************************************************************)
(* Photo-Enhancer: the App component of src/index.tsx as a state machine.  *)
(* The state is the component's useState cells plus the asynchronous work  *)
(* it has started and not yet seen finish: FileReader previews (reads) and *)
(* model requests (calls).  Strings are sequences of text chunks, so that  *)
(* concatenation, startsWith, includes and trim are computed, not assumed. *)
(* A nullable cell holds null (<<>>) or Some(v) (<<v>>).  ev records the   *)
(* last handler or callback that ran, the header's view switch excepted.   *)
(***************************************************************************)
EXTENDS Integers, Sequences, FiniteSets, Bags, TLC

\* ------------------------------------------------------------------ bounds
\* Uploads accepted, requests started and settings edited, in one session.
MaxOps == 4

\* --------------------------------------------------------------- constants
MAX_FILE_SIZE_MB == 10
MAX_FILE_SIZE_BYTES == MAX_FILE_SIZE_MB * 1024 * 1024

DEFAULT_PROMPT ==
    <<"Improve image quality, lighting, sharpness, color, and details without making it look artificial. Enhance the photo to make it look its best while maintaining a natural appearance.">>

null == <<>>
Some(x) == <<x>>

\* ------------------------------------------------------- string operations
\* String.prototype.startsWith
StartsWith(s, p) == Len(s) >= Len(p) /\ SubSeq(s, 1, Len(p)) = p

\* String.prototype.includes
Includes(s, sub) ==
    \E i \in 1..(Len(s) + 1) :
        i + Len(sub) - 1 <= Len(s) /\ SubSeq(s, i, i + Len(sub) - 1) = sub

IsSpace(ch) == ch = " "

RECURSIVE TrimStart(_)
TrimStart(s) ==
    IF s # <<>> /\ IsSpace(Head(s)) THEN TrimStart(Tail(s)) ELSE s

RECURSIVE TrimEnd(_)
TrimEnd(s) ==
    IF s # <<>> /\ IsSpace(s[Len(s)]) THEN TrimEnd(SubSeq(s, 1, Len(s) - 1)) ELSE s

\* String.prototype.trim
Trim(s) == TrimEnd(TrimStart(s))

\* ------------------------------------------------------------------- files
\* A candidate File: declared media type, byte size, and content (its base64).
PNG == <<"image/", "png">>
JPEG == <<"image/", "jpeg">>
WEBP == <<"image/", "webp">>
GIF == <<"image/", "gif">>
TEXT_PLAIN == <<"text/", "plain">>

File(n, t, sz) == [name |-> n, type |-> t, size |-> sz, data |-> "b64-" \o n]

Files ==
    { File("a.jpg", JPEG, MAX_FILE_SIZE_BYTES),
      File("b.gif", GIF, 1),
      File("c.webp", WEBP, MAX_FILE_SIZE_BYTES + 1),
      File("d.txt", TEXT_PLAIN, 1),
      File("e.txt", TEXT_PLAIN, MAX_FILE_SIZE_BYTES + 1) }

\* The media types the file input's accept attribute lists.
AcceptAttribute == {PNG, JPEG, WEBP}

\* FileReader.readAsDataURL(file): "data:<type>;base64,<content>"
DataURL(mimeType, data) == <<"data:">> \o mimeType \o <<";base64,", data>>
ReadAsDataURL(f) == DataURL(f.type, f.data)

\* ---------------------------------------------------------------- messages
INVALID_TYPE_MSG == <<"Please upload a valid image file (JPG, PNG, WEBP).">>
TOO_LARGE_MSG == <<"File size exceeds the ", ToString(MAX_FILE_SIZE_MB), "MB limit.">>
INVALID_KEY_MSG ==
    <<"Your API Key is not valid or has been revoked. Please select a new key to continue.">>
KEY_NOT_SET == <<"API Key must be set">>
ENTITY_NOT_FOUND == <<"Requested entity was not found">>
NO_TEXT == <<"No text response.">>
ENHANCE_ERR_PREFIX == <<"An error occurred during enhancement: ">>
BG_ERR_PREFIX == <<"An error occurred: ">>

\* ------------------------------------------------------------------- state
VARIABLES
    apiKeyReady, showLanding, activeMode, keyCheckPending,
    originalImage, imageFile, enhancedImage, prompt, isLoading, error,
    isFaceEnhancementEnabled, isRestoreEnabled, isDeblurEnabled, upscaleFactor,
    bgOriginalImage, bgImageFile, bgRemovedImage, bgIsLoading, bgError,
    reads, calls, nOps, ev

appVars == <<apiKeyReady, showLanding, activeMode, keyCheckPending>>
enhSettings ==
    <<prompt, isFaceEnhancementEnabled, isRestoreEnabled, isDeblurEnabled, upscaleFactor>>
enhVars == <<originalImage, imageFile, enhancedImage, isLoading, error, enhSettings>>
bgVars == <<bgOriginalImage, bgImageFile, bgRemovedImage, bgIsLoading, bgError>>
asyncVars == <<reads, calls>>
countVars == <<nOps>>
vars == <<appVars, enhVars, bgVars, asyncVars, countVars, ev>>


\* ---------------------------------------------------------------- initial
Init ==
    /\ apiKeyReady = FALSE
    /\ showLanding = TRUE
    /\ activeMode = "enhancer"
    /\ keyCheckPending = TRUE
    /\ originalImage = null
    /\ imageFile = null
    /\ enhancedImage = null
    /\ prompt = DEFAULT_PROMPT
    /\ isLoading = FALSE
    /\ error = null
    /\ isFaceEnhancementEnabled = FALSE
    /\ isRestoreEnabled = FALSE
    /\ isDeblurEnabled = FALSE
    /\ upscaleFactor = "none"
    /\ bgOriginalImage = null
    /\ bgImageFile = null
    /\ bgRemovedImage = null
    /\ bgIsLoading = FALSE
    /\ bgError = null
    /\ reads = EmptyBag
    /\ calls = EmptyBag
    /\ nOps = 0
    /\ ev = [op |-> "init", pipe |-> "app"]

\* ------------------------------------------------- what the App renders
\* App returns ApiKeySelector / LandingPage before the main view.
MainShown == apiKeyReady /\ ~showLanding
UploadShown == MainShown /\ activeMode = "enhancer" /\ originalImage = null
EditorShown == MainShown /\ activeMode = "enhancer" /\ originalImage # null
BgUploadShown == MainShown /\ activeMode = "remover" /\ bgOriginalImage = null
BgEditorShown == MainShown /\ activeMode = "remover" /\ bgOriginalImage # null

\* --------------------------------------------- key, landing page and mode
\* useEffect: checkApiKey resolves with window.aistudio.hasSelectedApiKey()
checkApiKey ==
    /\ keyCheckPending
    /\ \E hasKey \in BOOLEAN : apiKeyReady' = hasKey
    /\ keyCheckPending' = FALSE
    /\ ev' = [op |-> "checkApiKey", pipe |-> "app"]
    /\ UNCHANGED <<showLanding, activeMode, enhVars, bgVars, asyncVars, countVars>>

\* ApiKeySelector: openSelectKey() closes, then onKeySelected().  The mount-time
\* check is taken to have settled before the user gets through the dialog.
handleSelectKey ==
    /\ ~keyCheckPending
    /\ ~apiKeyReady
    /\ apiKeyReady' = TRUE
    /\ ev' = [op |-> "selectKey", pipe |-> "app"]
    /\ UNCHANGED <<showLanding, activeMode, keyCheckPending, enhVars, bgVars,
                   asyncVars, countVars>>

onGetStarted ==
    /\ apiKeyReady /\ showLanding
    /\ showLanding' = FALSE
    /\ ev' = [op |-> "getStarted", pipe |-> "app"]
    /\ UNCHANGED <<apiKeyReady, activeMode, keyCheckPending, enhVars, bgVars,
                   asyncVars, countVars>>

setActiveMode ==
    /\ MainShown
    /\ \E m \in {"enhancer", "remover"} : activeMode' = m
    /\ UNCHANGED <<apiKeyReady, showLanding, keyCheckPending, enhVars, bgVars,
                   asyncVars, countVars, ev>>

\* ----------------------------------------------------- ingestion checks
\* A slip: any declared type passes, only a missing one is refused.
IsImageType_AnyDeclared(type) == type # <<>>

IsImageType(type) == StartsWith(type, <<"image/">>)

\* A slip: the boundary itself is refused.
ExceedsLimit_Inclusive(size) == size >= MAX_FILE_SIZE_BYTES

\* A slip: the limit taken twice too large.
ExceedsLimit_WrongUnit(size) == size > 2 * MAX_FILE_SIZE_BYTES

ExceedsLimit(size) == size > MAX_FILE_SIZE_BYTES

\* The outcome of the two checks, in the order the handlers make them.
Validate(file) ==
    IF ~IsImageType(file.type) THEN "InvalidType"
    ELSE IF ExceedsLimit(file.size) THEN "TooLarge"
    ELSE "accepted"

ValidationMessage(outcome) ==
    IF outcome = "InvalidType" THEN INVALID_TYPE_MSG ELSE TOO_LARGE_MSG

\* ------------------------------------------------------ enhancer handlers
handleImageUpload(file) ==
    LET outcome == Validate(file) IN
    /\ ev' = [op |-> "upload", pipe |-> "enh", file |-> file, outcome |-> outcome]
    /\ IF outcome # "accepted"
       THEN /\ error' = Some(ValidationMessage(outcome))
            /\ UNCHANGED <<imageFile, reads, nOps>>
       ELSE /\ imageFile' = Some(file)
            /\ reads' = reads (+) SetToBag({[pipe |-> "enh", file |-> file]})
            /\ nOps' = nOps + 1
            /\ UNCHANGED error
    /\ UNCHANGED <<appVars, originalImage, enhancedImage, isLoading, enhSettings,
                   bgVars, calls>>

\* A slip: onloadend that shows the preview and leaves prompt and settings alone.
ImageReaderLoadEnd_KeepsSettings ==
    \E r \in {x \in BagToSet(reads) : x.pipe = "enh"} :
        /\ originalImage' = Some(ReadAsDataURL(r.file))
        /\ enhancedImage' = null
        /\ error' = null
        /\ reads' = reads (-) SetToBag({r})
        /\ ev' = [op |-> "loadend", pipe |-> "enh", file |-> r.file]
        /\ UNCHANGED <<appVars, imageFile, isLoading, enhSettings, bgVars, calls, countVars>>

\* reader.onloadend of the preview read started by handleImageUpload
ImageReaderLoadEnd ==
    \E r \in {x \in BagToSet(reads) : x.pipe = "enh"} :
        /\ originalImage' = Some(ReadAsDataURL(r.file))
        /\ enhancedImage' = null
        /\ error' = null
        /\ prompt' = DEFAULT_PROMPT
        /\ isFaceEnhancementEnabled' = FALSE
        /\ isRestoreEnabled' = FALSE
        /\ isDeblurEnabled' = FALSE
        /\ upscaleFactor' = "none"
        /\ reads' = reads (-) SetToBag({r})
        /\ ev' = [op |-> "loadend", pipe |-> "enh", file |-> r.file]
        /\ UNCHANGED <<appVars, imageFile, isLoading, bgVars, calls, countVars>>

\* A slip: Reset that forgets setIsLoading(false).
handleReset_KeepsLoading ==
    /\ originalImage # null /\ apiKeyReady /\ ~showLanding /\ activeMode = "enhancer"
    /\ originalImage' = null
    /\ imageFile' = null
    /\ enhancedImage' = null
    /\ error' = null
    /\ prompt' = DEFAULT_PROMPT
    /\ isFaceEnhancementEnabled' = FALSE
    /\ isRestoreEnabled' = FALSE
    /\ isDeblurEnabled' = FALSE
    /\ upscaleFactor' = "none"
    /\ ev' = [op |-> "reset", pipe |-> "enh"]
    /\ UNCHANGED <<appVars, isLoading, bgVars, asyncVars, countVars>>

\* A slip: Reset that flips the restore toggle instead of switching it off.
handleResetStatements_FlipsRestore ==
    /\ originalImage' = null
    /\ imageFile' = null
    /\ enhancedImage' = null
    /\ error' = null
    /\ isLoading' = FALSE
    /\ prompt' = DEFAULT_PROMPT
    /\ isFaceEnhancementEnabled' = FALSE
    /\ isRestoreEnabled' = ~isRestoreEnabled
    /\ isDeblurEnabled' = FALSE
    /\ upscaleFactor' = "none"
    /\ ev' = [op |-> "reset", pipe |-> "enh"]
    /\ UNCHANGED <<appVars, bgVars, asyncVars, countVars>>

\* The statements of handleReset: every cell is set to a fixed value.
handleResetStatements ==
    /\ originalImage' = null
    /\ imageFile' = null
    /\ enhancedImage' = null
    /\ error' = null
    /\ isLoading' = FALSE
    /\ prompt' = DEFAULT_PROMPT
    /\ isFaceEnhancementEnabled' = FALSE
    /\ isRestoreEnabled' = FALSE
    /\ isDeblurEnabled' = FALSE
    /\ upscaleFactor' = "none"
    /\ ev' = [op |-> "reset", pipe |-> "enh"]
    /\ UNCHANGED <<appVars, bgVars, asyncVars, countVars>>

\* EditorComponent: the reset button, onReset; rendered with the editor only
handleReset == EditorShown /\ handleResetStatements

\* ------------------------------------------------------- editor controls
upscaleOptions == {"none", "2x", "4x", "8x", "16x", "32x"}

\* What the user may type into the prompt textarea.
PromptInputs == {<<"Improve lighting">>, <<" ">>, <<>>}

setPrompt ==
    /\ EditorShown /\ nOps < MaxOps
    /\ \E p \in PromptInputs : prompt' = p
    /\ nOps' = nOps + 1
    /\ ev' = [op |-> "edit", pipe |-> "enh", what |-> "prompt"]
    /\ UNCHANGED <<appVars, originalImage, imageFile, enhancedImage, isLoading, error,
                   isFaceEnhancementEnabled, isRestoreEnabled, isDeblurEnabled,
                   upscaleFactor, bgVars, asyncVars>>

\* checkbox onChange: e.target.checked is the negation of the controlled value
setIsFaceEnhancementEnabled ==
    /\ EditorShown /\ nOps < MaxOps
    /\ isFaceEnhancementEnabled' = ~isFaceEnhancementEnabled
    /\ nOps' = nOps + 1
    /\ ev' = [op |-> "edit", pipe |-> "enh", what |-> "isFaceEnhancementEnabled"]
    /\ UNCHANGED <<appVars, originalImage, imageFile, enhancedImage, isLoading, error,
                   prompt, isRestoreEnabled, isDeblurEnabled, upscaleFactor,
                   bgVars, asyncVars>>

setIsRestoreEnabled ==
    /\ EditorShown /\ nOps < MaxOps
    /\ isRestoreEnabled' = ~isRestoreEnabled
    /\ nOps' = nOps + 1
    /\ ev' = [op |-> "edit", pipe |-> "enh", what |-> "isRestoreEnabled"]
    /\ UNCHANGED <<appVars, originalImage, imageFile, enhancedImage, isLoading, error,
                   prompt, isFaceEnhancementEnabled, isDeblurEnabled, upscaleFactor,
                   bgVars, asyncVars>>

setIsDeblurEnabled ==
    /\ EditorShown /\ nOps < MaxOps
    /\ isDeblurEnabled' = ~isDeblurEnabled
    /\ nOps' = nOps + 1
    /\ ev' = [op |-> "edit", pipe |-> "enh", what |-> "isDeblurEnabled"]
    /\ UNCHANGED <<appVars, originalImage, imageFile, enhancedImage, isLoading, error,
                   prompt, isFaceEnhancementEnabled, isRestoreEnabled, upscaleFactor,
                   bgVars, asyncVars>>

setUpscaleFactor ==
    /\ EditorShown /\ nOps < MaxOps
    /\ \E factor \in upscaleOptions : upscaleFactor' = factor
    /\ nOps' = nOps + 1
    /\ ev' = [op |-> "edit", pipe |-> "enh", what |-> "upscaleFactor"]
    /\ UNCHANGED <<appVars, originalImage, imageFile, enhancedImage, isLoading, error,
                   prompt, isFaceEnhancementEnabled, isRestoreEnabled, isDeblurEnabled,
                   bgVars, asyncVars>>

\* -------------------------------------------------------- prompt assembly
RESOLUTION_FRAGMENT(factor) ==
    <<" Increase the resolution of the image by ", factor,
      " while keeping details sharp and natural.">>
DEBLUR_FRAGMENT ==
    <<" This is a high-priority instruction: Remove all types of blur from the image, including motion blur, focus blur, and camera shake. The final image must be exceptionally sharp and clear, with all details brought into crisp focus.">>
RESTORE_FRAGMENT ==
    <<" Perform an expert-level, full restoration of this photograph. This is a high-priority instruction. Your task is to meticulously repair all signs of damage and degradation. (1. Fix Physical Damage ... 5. Final Output)">>
FACE_FRAGMENT ==
    <<" Generate an ultra-realistic face. Focus on hyper-detailed skin texture, including pores and fine lines. Create lifelike eyes with natural depth and reflections. Render individual hair and eyebrow strands with sharp precision. The result should be indistinguishable from a high-resolution photograph.">>

\* A slip: the restoration block appended before the deblur block.
BuildFinalPrompt_Swapped(base, factor, deblur, restore, face) ==
    LET p1 == IF factor # "none" THEN base \o RESOLUTION_FRAGMENT(factor) ELSE base
        p2 == IF restore THEN p1 \o RESTORE_FRAGMENT ELSE p1
        p3 == IF deblur THEN p2 \o DEBLUR_FRAGMENT ELSE p2
        p4 == IF face THEN p3 \o FACE_FRAGMENT ELSE p3
    IN p4

\* A slip: the deblur block appended at the end, after the face block.
BuildFinalPrompt_DeblurLast(base, factor, deblur, restore, face) ==
    LET p1 == IF factor # "none" THEN base \o RESOLUTION_FRAGMENT(factor) ELSE base
        p2 == IF restore THEN p1 \o RESTORE_FRAGMENT ELSE p1
        p3 == IF face THEN p2 \o FACE_FRAGMENT ELSE p2
        p4 == IF deblur THEN p3 \o DEBLUR_FRAGMENT ELSE p3
    IN p4

\* let finalPrompt = prompt; then one "+=" per active setting, in source order.
BuildFinalPrompt(base, factor, deblur, restore, face) ==
    LET p1 == IF factor # "none" THEN base \o RESOLUTION_FRAGMENT(factor) ELSE base
        p2 == IF deblur THEN p1 \o DEBLUR_FRAGMENT ELSE p1
        p3 == IF restore THEN p2 \o RESTORE_FRAGMENT ELSE p2
        p4 == IF face THEN p3 \o FACE_FRAGMENT ELSE p3
    IN p4

BG_REMOVE_PROMPT ==
    <<"CRITICAL TASK: Your only job is to remove the background from this image. The main subject must be perfectly isolated with clean edges. The output format MUST be a PNG with a fully transparent (alpha) background. Do not output any other format or any background color.">>

\* fileToGenerativePart: the part built from the file once its read has ended
GenerativePart(file) == [inlineData |-> [data |-> file.data, mimeType |-> file.type]]


\* ------------------------------------------------- the external model call
TextPart(t) == [inlineData |-> null, text |-> Some(t)]
ImagePart(mimeType, data) ==
    [inlineData |-> Some([data |-> data, mimeType |-> mimeType]), text |-> null]

\* response.candidates?.[0]?.content?.parts: null when any link is missing
PartLists ==
    { null,
      Some(<<>>),
      Some(<<TextPart(<<"Here is the image.">>)>>),
      Some(<<ImagePart(JPEG, "r1"), TextPart(<<"Done.">>)>>),
      Some(<<TextPart(<<"Here is the image.">>), ImagePart(JPEG, "r1"), ImagePart(PNG, "r2")>>) }

\* response.text: undefined (null) or a string
ResponseTexts ==
    { null,
      Some(<<" ">>),
      Some(<<" ", "I cannot edit this image.", " ">>),
      Some(<<"Provide a key: ", "API Key must be set", ".">>) }

Responses == [parts : PartLists, text : ResponseTexts]

\* A thrown Error: its message, and what String(e) gives.
JsError(message) ==
    [message |-> message,
     string |-> IF message = <<>> THEN <<"Error">> ELSE <<"Error: ">> \o message]

ThrownErrors ==
    { JsError(<<"An ", "API Key must be set", " when running in a browser">>),
      JsError(<<"404: ", "Requested entity was not found", ".">>),
      JsError(<<"Failed to fetch">>),
      JsError(<<>>) }

\* A slip: the loop without its break, so that the last inline part wins.
FirstInline_NoBreak(parts) ==
    IF parts = null THEN 0
    ELSE LET idx == {i \in 1..Len(parts[1]) : parts[1][i].inlineData # null}
         IN IF idx = {} THEN 0 ELSE CHOOSE i \in idx : \A j \in idx : i >= j

\* The for loop over parts: index of the first part carrying inlineData, or 0.
FirstInline(parts) ==
    IF parts = null THEN 0
    ELSE LET idx == {i \in 1..Len(parts[1]) : parts[1][i].inlineData # null}
         IN IF idx = {} THEN 0 ELSE CHOOSE i \in idx : \A j \in idx : i <= j

\* response.text?.trim() || "No text response."
TextResponse(text) ==
    IF text = null THEN NO_TEXT
    ELSE IF Trim(text[1]) = <<>> THEN NO_TEXT ELSE Trim(text[1])

\* throw new Error(`The AI did not return an image. Response: "${textResponse}"`)
NoImageError(response) ==
    JsError(<<"The AI did not return an image. Response: \"">>
            \o TextResponse(response.text) \o <<"\"">>)

\* e.message || String(e)
ErrorMessage(e) == IF e.message # <<>> THEN e.message ELSE e.string

\* A slip: only the first of the two substrings is looked for.
IsKeyError_FirstOnly(errorMessage) == Includes(errorMessage, KEY_NOT_SET)

IsKeyError(errorMessage) ==
    Includes(errorMessage, KEY_NOT_SET) \/ Includes(errorMessage, ENTITY_NOT_FOUND)

\* The requests outstanding, as a bag: two clicks may send the same request.
EnhCalls == {c \in BagToSet(calls) : c.pipe = "enh"}
BgCalls == {c \in BagToSet(calls) : c.pipe = "bg"}

\* A slip: the catch block without the finally that clears the indicator.
EnhanceCatch_NoFinally(e) ==
    /\ IF IsKeyError(ErrorMessage(e))
       THEN /\ error' = Some(INVALID_KEY_MSG)
            /\ apiKeyReady' = FALSE
       ELSE /\ error' = Some(ENHANCE_ERR_PREFIX \o ErrorMessage(e))
            /\ UNCHANGED apiKeyReady
    /\ UNCHANGED isLoading

\* A slip: a catch block that shows nothing.
EnhanceCatch_Silent(e) ==
    /\ isLoading' = FALSE
    /\ UNCHANGED <<error, apiKeyReady>>

\* catch (e) { ... } finally { setIsLoading(false) } of handleEnhanceClick
EnhanceCatch(e) ==
    /\ IF IsKeyError(ErrorMessage(e))
       THEN /\ error' = Some(INVALID_KEY_MSG)
            /\ apiKeyReady' = FALSE
       ELSE /\ error' = Some(ENHANCE_ERR_PREFIX \o ErrorMessage(e))
            /\ UNCHANGED apiKeyReady
    /\ isLoading' = FALSE

\* A slip: the Enhance button offered whatever the prompt holds.
EnhanceEnabled_AnyPrompt == EditorShown /\ ~isLoading

\* A slip: the Enhance button offered whether or not a preview is shown.
EnhanceEnabled_NoPreview ==
    apiKeyReady /\ ~showLanding /\ activeMode = "enhancer" /\ ~isLoading /\ Trim(prompt) # <<>>

\* EditorComponent: <button onClick={onEnhance} disabled={isLoading || !prompt.trim()}>
EnhanceEnabled == EditorShown /\ ~isLoading /\ Trim(prompt) # <<>>

\* handleEnhanceClick up to generateContent.  `new GoogleGenAI(...)` is the first
\* statement of the try block; when it throws, catch and finally run in the same
\* step and no request is made.  Between the click and the request lies only
\* await fileToGenerativePart(imageFile), which reads and writes no state of the
\* App (the prompt and the settings are the clicked render's), so the request is
\* taken to be outstanding from the click on.
handleEnhanceClickStatements ==
    /\ IF imageFile = null \/ prompt = <<>>
       THEN /\ ev' = [op |-> "enhance", pipe |-> "enh", started |-> FALSE]
            /\ UNCHANGED <<appVars, enhVars, bgVars, asyncVars, countVars>>
       ELSE \E clientThrows \in BOOLEAN :
            /\ enhancedImage' = null
            /\ IF clientThrows
               THEN /\ EnhanceCatch(JsError(<<"An ", "API Key must be set",
                                              " when running in a browser">>))
                    /\ ev' = [op |-> "enhance", pipe |-> "enh", started |-> FALSE]
                    /\ UNCHANGED <<calls, nOps>>
               ELSE /\ isLoading' = TRUE
                    /\ error' = null
                    /\ calls' = calls (+) SetToBag(
                         {[pipe |-> "enh", image |-> GenerativePart(imageFile[1]),
                           text |-> BuildFinalPrompt(prompt, upscaleFactor, isDeblurEnabled,
                                                     isRestoreEnabled, isFaceEnhancementEnabled)]})
                    /\ nOps' = nOps + 1
                    /\ ev' = [op |-> "enhance", pipe |-> "enh", started |-> TRUE,
                              after |-> IF ev.op = "edit" THEN ev.what ELSE ev.op]
                    /\ UNCHANGED apiKeyReady
            /\ UNCHANGED <<showLanding, activeMode, keyCheckPending, originalImage,
                           imageFile, enhSettings, bgVars, reads>>

\* EditorComponent: the Enhance button, onEnhance; clickable while it is enabled
handleEnhanceClick ==
    /\ EnhanceEnabled
    /\ nOps < MaxOps
    /\ handleEnhanceClickStatements

\* generateContent of request c resolves with response: the rest of the try
\* block, then catch/finally
enhanceResolvesWith(c, response) ==
        LET i == FirstInline(response.parts) IN
        /\ IF i > 0
           THEN LET inlineData == response.parts[1][i].inlineData[1] IN
                /\ enhancedImage' = Some(DataURL(inlineData.mimeType, inlineData.data))
                /\ isLoading' = FALSE
                /\ UNCHANGED <<error, apiKeyReady>>
           ELSE /\ EnhanceCatch(NoImageError(response))
                /\ UNCHANGED enhancedImage
        /\ calls' = calls (-) SetToBag({c})
        /\ ev' = [op |-> "response", pipe |-> "enh", kind |-> IF i > 0 THEN "image" ELSE "noimage"]
        /\ UNCHANGED <<showLanding, activeMode, keyCheckPending, originalImage, imageFile,
                       enhSettings, bgVars, reads, countVars>>

enhanceResolves ==
    \E c \in EnhCalls, response \in Responses : enhanceResolvesWith(c, response)

\* A slip: after a thrown error the request is sent again.
enhanceRejectsWith_Retry(c, e) ==
        /\ calls' = calls
        /\ ev' = [op |-> "response", pipe |-> "enh", kind |-> "thrown"]
        /\ UNCHANGED <<appVars, enhVars, bgVars, reads, countVars>>

\* generateContent of request c rejects with e
enhanceRejectsWith(c, e) ==
        /\ EnhanceCatch(e)
        /\ calls' = calls (-) SetToBag({c})
        /\ ev' = [op |-> "response", pipe |-> "enh", kind |-> "thrown"]
        /\ UNCHANGED <<showLanding, activeMode, keyCheckPending, originalImage, imageFile,
                       enhancedImage, enhSettings, bgVars, reads, countVars>>

enhanceRejects ==
    \E c \in EnhCalls, e \in ThrownErrors : enhanceRejectsWith(c, e)


\* -------------------------------------------- background remover handlers
handleBgImageUpload(file) ==
    LET outcome == Validate(file) IN
    /\ ev' = [op |-> "upload", pipe |-> "bg", file |-> file, outcome |-> outcome]
    /\ IF outcome # "accepted"
       THEN /\ bgError' = Some(ValidationMessage(outcome))
            /\ UNCHANGED <<bgImageFile, reads, nOps>>
       ELSE /\ bgImageFile' = Some(file)
            /\ reads' = reads (+) SetToBag({[pipe |-> "bg", file |-> file]})
            /\ nOps' = nOps + 1
            /\ UNCHANGED bgError
    /\ UNCHANGED <<appVars, enhVars, bgOriginalImage, bgRemovedImage, bgIsLoading,
                   calls>>

\* reader.onloadend of the preview read started by handleBgImageUpload
BgReaderLoadEnd ==
    \E r \in {x \in BagToSet(reads) : x.pipe = "bg"} :
        /\ bgOriginalImage' = Some(ReadAsDataURL(r.file))
        /\ bgRemovedImage' = null
        /\ bgError' = null
        /\ reads' = reads (-) SetToBag({r})
        /\ ev' = [op |-> "loadend", pipe |-> "bg", file |-> r.file]
        /\ UNCHANGED <<appVars, enhVars, bgImageFile, bgIsLoading, calls, countVars>>

\* A slip: the remover's reset also clears the enhancer's result and error.
handleBgResetStatements_ClearsBoth ==
    /\ bgOriginalImage' = null
    /\ bgImageFile' = null
    /\ bgRemovedImage' = null
    /\ bgError' = null
    /\ bgIsLoading' = FALSE
    /\ enhancedImage' = null
    /\ error' = null
    /\ ev' = [op |-> "reset", pipe |-> "bg"]
    /\ UNCHANGED <<appVars, originalImage, imageFile, isLoading, enhSettings,
                   asyncVars, countVars>>

\* The statements of handleBgReset
handleBgResetStatements ==
    /\ bgOriginalImage' = null
    /\ bgImageFile' = null
    /\ bgRemovedImage' = null
    /\ bgError' = null
    /\ bgIsLoading' = FALSE
    /\ ev' = [op |-> "reset", pipe |-> "bg"]
    /\ UNCHANGED <<appVars, enhVars, asyncVars, countVars>>

\* BackgroundRemoverComponent: the "Upload New Image" button, onReset
handleBgReset == BgEditorShown /\ handleBgResetStatements

\* A slip: the remover's catch block without the finally.
RemoveCatch_NoFinally(e) ==
    /\ IF IsKeyError(ErrorMessage(e))
       THEN /\ bgError' = Some(INVALID_KEY_MSG)
            /\ apiKeyReady' = FALSE
       ELSE /\ bgError' = Some(BG_ERR_PREFIX \o ErrorMessage(e))
            /\ UNCHANGED apiKeyReady
    /\ UNCHANGED bgIsLoading

\* catch (e) { ... } finally { setBgIsLoading(false) } of handleRemoveBackgroundClick
RemoveCatch(e) ==
    /\ IF IsKeyError(ErrorMessage(e))
       THEN /\ bgError' = Some(INVALID_KEY_MSG)
            /\ apiKeyReady' = FALSE
       ELSE /\ bgError' = Some(BG_ERR_PREFIX \o ErrorMessage(e))
            /\ UNCHANGED apiKeyReady
    /\ bgIsLoading' = FALSE

\* <button onClick={onRemoveBackground} disabled={isLoading}>
RemoveEnabled == BgEditorShown /\ ~bgIsLoading

\* What the remover shows when the button is clicked: a result, else an error,
\* else the bare source.
BgStateOf ==
    IF bgRemovedImage # null THEN "Succeeded"
    ELSE IF bgError # null THEN "Failed"
    ELSE "Loaded"

\* A slip: the click that forgets setBgRemovedImage(null).
handleRemoveBackgroundClick_KeepsResult ==
    /\ RemoveEnabled
    /\ nOps < MaxOps
    /\ IF bgImageFile = null
       THEN /\ ev' = [op |-> "remove", pipe |-> "bg", started |-> FALSE]
            /\ UNCHANGED <<appVars, enhVars, bgVars, asyncVars, countVars>>
       ELSE \E clientThrows \in BOOLEAN :
            /\ UNCHANGED bgRemovedImage
            /\ IF clientThrows
               THEN /\ RemoveCatch(JsError(<<"An ", "API Key must be set",
                                             " when running in a browser">>))
                    /\ ev' = [op |-> "remove", pipe |-> "bg", started |-> FALSE]
                    /\ UNCHANGED <<calls, nOps>>
               ELSE /\ bgIsLoading' = TRUE
                    /\ bgError' = null
                    /\ calls' = calls (+) SetToBag(
                         {[pipe |-> "bg", image |-> GenerativePart(bgImageFile[1]),
                           text |-> BG_REMOVE_PROMPT]})
                    /\ nOps' = nOps + 1
                    /\ ev' = [op |-> "remove", pipe |-> "bg", started |-> TRUE, from |-> BgStateOf]
                    /\ UNCHANGED apiKeyReady
            /\ UNCHANGED <<showLanding, activeMode, keyCheckPending, enhVars,
                           bgOriginalImage, bgImageFile, reads>>

\* handleRemoveBackgroundClick up to generateContent, as handleEnhanceClick
handleRemoveBackgroundClick ==
    /\ RemoveEnabled
    /\ nOps < MaxOps
    /\ IF bgImageFile = null
       THEN /\ ev' = [op |-> "remove", pipe |-> "bg", started |-> FALSE]
            /\ UNCHANGED <<appVars, enhVars, bgVars, asyncVars, countVars>>
       ELSE \E clientThrows \in BOOLEAN :
            /\ bgRemovedImage' = null
            /\ IF clientThrows
               THEN /\ RemoveCatch(JsError(<<"An ", "API Key must be set",
                                             " when running in a browser">>))
                    /\ ev' = [op |-> "remove", pipe |-> "bg", started |-> FALSE]
                    /\ UNCHANGED <<calls, nOps>>
               ELSE /\ bgIsLoading' = TRUE
                    /\ bgError' = null
                    /\ calls' = calls (+) SetToBag(
                         {[pipe |-> "bg", image |-> GenerativePart(bgImageFile[1]),
                           text |-> BG_REMOVE_PROMPT]})
                    /\ nOps' = nOps + 1
                    /\ ev' = [op |-> "remove", pipe |-> "bg", started |-> TRUE, from |-> BgStateOf]
                    /\ UNCHANGED apiKeyReady
            /\ UNCHANGED <<showLanding, activeMode, keyCheckPending, enhVars,
                           bgOriginalImage, bgImageFile, reads>>

\* A slip: the media type the service reports is kept.
BgResultMimeType_Reported(inlineData) == inlineData.mimeType

\* const mimeType = 'image/png'  ("Force PNG mimeType for transparency")
BgResultMimeType(inlineData) == PNG

removeResolvesWith(c, response) ==
        LET i == FirstInline(response.parts) IN
        /\ IF i > 0
           THEN LET inlineData == response.parts[1][i].inlineData[1] IN
                /\ bgRemovedImage' = Some(DataURL(BgResultMimeType(inlineData),
                                                  inlineData.data))
                /\ bgIsLoading' = FALSE
                /\ UNCHANGED <<bgError, apiKeyReady>>
           ELSE /\ RemoveCatch(NoImageError(response))
                /\ UNCHANGED bgRemovedImage
        /\ calls' = calls (-) SetToBag({c})
        /\ ev' = [op |-> "response", pipe |-> "bg", kind |-> IF i > 0 THEN "image" ELSE "noimage"]
        /\ UNCHANGED <<showLanding, activeMode, keyCheckPending, enhVars,
                       bgOriginalImage, bgImageFile, reads, countVars>>

removeResolves ==
    \E c \in BgCalls, response \in Responses : removeResolvesWith(c, response)

removeRejectsWith(c, e) ==
        /\ RemoveCatch(e)
        /\ calls' = calls (-) SetToBag({c})
        /\ ev' = [op |-> "response", pipe |-> "bg", kind |-> "thrown"]
        /\ UNCHANGED <<showLanding, activeMode, keyCheckPending, enhVars,
                       bgOriginalImage, bgImageFile, bgRemovedImage, reads, countVars>>

removeRejects ==
    \E c \in BgCalls, e \in ThrownErrors : removeRejectsWith(c, e)

\* --------------------------------------------------------- UploadComponent
\* onImageUpload is handleImageUpload in the enhancer view and
\* handleBgImageUpload in the remover view.
onImageUpload(file) ==
    \/ UploadShown /\ handleImageUpload(file)
    \/ BgUploadShown /\ handleBgImageUpload(file)

\* A dropped file reaches onImageUpload whatever its type.
handleDrop ==
    /\ nOps < MaxOps
    /\ \E file \in Files : onImageUpload(file)

\* The file input offers the types of its accept attribute.
handleFileSelect ==
    /\ nOps < MaxOps
    /\ \E file \in {f \in Files : f.type \in AcceptAttribute} : onImageUpload(file)

\* ------------------------------------------------------------ specification
Next ==
    \/ checkApiKey
    \/ handleSelectKey
    \/ onGetStarted
    \/ setActiveMode
    \/ handleDrop
    \/ handleFileSelect
    \/ ImageReaderLoadEnd
    \/ BgReaderLoadEnd
    \/ setPrompt
    \/ setIsFaceEnhancementEnabled
    \/ setIsRestoreEnabled
    \/ setIsDeblurEnabled
    \/ setUpscaleFactor
    \/ handleEnhanceClick
    \/ handleRemoveBackgroundClick
    \/ enhanceResolves
    \/ enhanceRejects
    \/ removeResolves
    \/ removeRejects
    \/ handleReset
    \/ handleBgReset

Spec == Init /\ [][Next]_vars


\* A session that starts in the editor with a source loaded and the settings
\* already chosen, and from there only sends requests and receives answers:
\* the specification for what prompt assembly computes.
AssemblyPrompts == PromptInputs \cup {DEFAULT_PROMPT}

InitAssembly ==
    /\ apiKeyReady = TRUE
    /\ showLanding = FALSE
    /\ activeMode = "enhancer"
    /\ keyCheckPending = FALSE
    /\ \E f \in {x \in Files : Validate(x) = "accepted"} :
        /\ imageFile = Some(f)
        /\ originalImage = Some(ReadAsDataURL(f))
    /\ enhancedImage = null
    /\ prompt \in AssemblyPrompts
    /\ isLoading = FALSE
    /\ error = null
    /\ isFaceEnhancementEnabled \in BOOLEAN
    /\ isRestoreEnabled \in BOOLEAN
    /\ isDeblurEnabled \in BOOLEAN
    /\ upscaleFactor \in upscaleOptions
    /\ bgOriginalImage = null
    /\ bgImageFile = null
    /\ bgRemovedImage = null
    /\ bgIsLoading = FALSE
    /\ bgError = null
    /\ reads = EmptyBag
    /\ calls = EmptyBag
    /\ nOps = 0
    /\ ev = [op |-> "init", pipe |-> "app"]

NextAssembly ==
    \/ handleEnhanceClick
    \/ enhanceResolves
    \/ enhanceRejects
    \/ handleSelectKey

SpecAssembly == InitAssembly /\ [][NextAssembly]_vars


\* A session taken up where both pipelines hold an accepted file and its
\* preview and are not loading, and where at most one request is still
\* outstanding, abandoned by a Reset before the file was uploaded again; from
\* there requests are sent, answered and abandoned by Reset, in either mode:
\* the specification for what the handling of responses and thrown errors does.
AcceptedFiles == {f \in Files : Validate(f) = "accepted"}

InitRequests ==
    /\ apiKeyReady = TRUE
    /\ showLanding = FALSE
    /\ activeMode \in {"enhancer", "remover"}
    /\ keyCheckPending = FALSE
    /\ \E f \in AcceptedFiles :
        /\ imageFile = Some(f)
        /\ originalImage = Some(ReadAsDataURL(f))
    /\ enhancedImage = null
    /\ prompt = DEFAULT_PROMPT
    /\ isLoading = FALSE
    /\ error = null
    /\ isFaceEnhancementEnabled = FALSE
    /\ isRestoreEnabled = FALSE
    /\ isDeblurEnabled = FALSE
    /\ upscaleFactor = "none"
    /\ \E f \in AcceptedFiles :
        /\ bgImageFile = Some(f)
        /\ bgOriginalImage = Some(ReadAsDataURL(f))
    /\ bgRemovedImage = null
    /\ bgIsLoading = FALSE
    /\ bgError = null
    /\ reads = EmptyBag
    /\ calls \in { EmptyBag,
                   SetToBag({[pipe |-> "enh", image |-> GenerativePart(imageFile[1]),
                              text |-> DEFAULT_PROMPT]}),
                   SetToBag({[pipe |-> "bg", image |-> GenerativePart(bgImageFile[1]),
                              text |-> BG_REMOVE_PROMPT]}) }
    /\ nOps = 0
    /\ ev = [op |-> "init", pipe |-> "app"]

NextRequests ==
    \/ handleEnhanceClick
    \/ enhanceResolves
    \/ enhanceRejects
    \/ handleRemoveBackgroundClick
    \/ removeResolves
    \/ removeRejects
    \/ handleReset
    \/ handleBgReset
    \/ setActiveMode
    \/ handleSelectKey

SpecRequests == InitRequests /\ [][NextRequests]_vars

\* Sessions that start in the enhancer with no call outstanding, with a remote
\* service that answers every call: an outstanding call is eventually resolved
\* or rejected.
InitResponding == InitRequests /\ calls = EmptyBag /\ activeMode = "enhancer"

SpecResponding ==
    /\ InitResponding /\ [][NextRequests]_vars
    /\ WF_vars(enhanceResolves \/ enhanceRejects)
    /\ WF_vars(removeResolves \/ removeRejects)

\* ================================================================ claims
\* The number of requests of a pipeline that were sent and have not settled.
Outstanding(pipe) ==
    LET mine == {c \in BagToSet(calls) : c.pipe = pipe}
    IN BagCardinality([c \in mine |-> calls[c]])

\* The pipeline states of the design's state machine, read off the state cells.
EnhState ==
    IF isLoading THEN "Requesting"
    ELSE IF imageFile = null \/ originalImage = null THEN "Empty"
    ELSE IF enhancedImage # null THEN "Succeeded"
    ELSE IF error # null THEN "Failed"
    ELSE "Loaded"

BgState ==
    IF bgIsLoading THEN "Requesting"
    ELSE IF bgImageFile = null \/ bgOriginalImage = null THEN "Empty"
    ELSE IF bgRemovedImage # null THEN "Succeeded"
    ELSE IF bgError # null THEN "Failed"
    ELSE "Loaded"

EnhDefaults ==
    /\ prompt = DEFAULT_PROMPT
    /\ upscaleFactor = "none"
    /\ ~isRestoreEnabled /\ ~isDeblurEnabled /\ ~isFaceEnhancementEnabled

\* C1: at most one enhancement call and at most one background-removal call is
\* outstanding, in every reachable state.
C1_AtMostOneInFlight == Outstanding("enh") <= 1 /\ Outstanding("bg") <= 1

\* C2: right after Reset the pipeline is Empty: no source image, no file, no
\* result, no error, not loading; and the enhancer's prompt is the default,
\* the multiplier 'none' and every toggle off.
C2_ResetYieldsEmpty ==
    /\ (ev.op = "reset" /\ ev.pipe = "enh") =>
         /\ originalImage = null /\ imageFile = null /\ enhancedImage = null
         /\ error = null /\ isLoading = FALSE
         /\ EnhDefaults
    /\ (ev.op = "reset" /\ ev.pipe = "bg") =>
         /\ bgOriginalImage = null /\ bgImageFile = null /\ bgRemovedImage = null
         /\ bgError = null /\ bgIsLoading = FALSE

\* Reset was pressed while a request composed from edited settings was outstanding.
C2_Witness ==
    /\ ev.op = "reset" /\ ev.pipe = "enh"
    /\ \E c \in EnhCalls : c.text # DEFAULT_PROMPT


\* A step that sent a new request of the pipeline.
StartedCall(pipe) ==
    \E c \in BagToSet(calls') : c.pipe = pipe /\ CopiesIn(c, calls') > CopiesIn(c, calls)

\* The two ingestion checks, stated on the file itself.
PassedBothChecks(f) ==
    /\ f.type # <<>> /\ f.type[1] = "image/"
    /\ f.size <= 10 * 1024 * 1024

PreviewOf(f) == Some(<<"data:">> \o f.type \o <<";base64,", f.data>>)

\* C3: a request is sent, and Requesting is entered, only from Loaded, Succeeded
\* or Failed, never from Empty; and a pipeline leaves Empty only for Loaded, by
\* the preview read of a file that passed the type check and the size check.
C3_RequestingOnlyWithSource ==
    [][ /\ (StartedCall("enh") \/ (EnhState # "Requesting" /\ EnhState' = "Requesting"))
            => EnhState \in {"Loaded", "Succeeded", "Failed"}
        /\ (StartedCall("bg") \/ (BgState # "Requesting" /\ BgState' = "Requesting"))
            => BgState \in {"Loaded", "Succeeded", "Failed"}
        /\ (EnhState = "Empty" /\ EnhState' # "Empty")
            => /\ EnhState' = "Loaded"
               /\ ev'.op = "loadend" /\ ev'.pipe = "enh"
               /\ PassedBothChecks(imageFile'[1])
               /\ \E f \in Files : PassedBothChecks(f) /\ originalImage' = PreviewOf(f)
        /\ (BgState = "Empty" /\ BgState' # "Empty")
            => /\ BgState' = "Loaded"
               /\ ev'.op = "loadend" /\ ev'.pipe = "bg"
               /\ PassedBothChecks(bgImageFile'[1])
               /\ \E f \in Files : PassedBothChecks(f) /\ bgOriginalImage' = PreviewOf(f)
      ]_vars

\* An enhancement request has just been sent from a pipeline holding its source.
C3_Witness ==
    /\ ev.op = "enhance" /\ ev.started
    /\ EnhState = "Requesting" /\ imageFile # null /\ originalImage # null
    /\ Outstanding("enh") = 1

\* C4: a result is present only when the pipeline's latest request succeeded:
\* never in Empty or Loaded, never while a request is outstanding, never after
\* a failed request.
C4_ResultOnlyAfterSuccess ==
    /\ enhancedImage # null => (EnhState = "Succeeded" /\ Outstanding("enh") = 0)
    /\ bgRemovedImage # null => (BgState = "Succeeded" /\ Outstanding("bg") = 0)

\* A step in which a request of the pipeline ended in an error: the service
\* answered without an image, the call threw, or the client could not be built.
FailureStep(pipe) ==
    /\ ev'.pipe = pipe
    /\ \/ /\ ev'.op = "response" /\ ev'.kind \in {"noimage", "thrown"}
          /\ BagCardinality(calls') < BagCardinality(calls)
       \/ /\ ev'.op \in {"enhance", "remove"} /\ ~ev'.started
          /\ apiKeyReady /\ ~apiKeyReady'

\* C5: a request-level error leaves the pipeline not loading and with an error
\* message, changes neither the source image nor the file, the prompt or the
\* toggles, and leaves the trigger enabled wherever the editor is shown with a
\* non-blank prompt.
C5_ErrorEndsOnlyTheRequest ==
    [][ /\ FailureStep("enh") =>
            /\ isLoading' = FALSE
            /\ error' # null
            /\ UNCHANGED <<originalImage, imageFile, enhSettings>>
            /\ EnhanceEnabled' <=> (EditorShown' /\ Trim(prompt') # <<>>)
        /\ FailureStep("bg") =>
            /\ bgIsLoading' = FALSE
            /\ bgError' # null
            /\ UNCHANGED <<bgOriginalImage, bgImageFile>>
            /\ RemoveEnabled' <=> BgEditorShown'
      ]_vars

\* An enhancement call threw; the source is still held and Enhance is offered again.
C5_Witness ==
    /\ ev.op = "response" /\ ev.pipe = "enh" /\ ev.kind = "thrown"
    /\ imageFile # null /\ originalImage # null /\ error # null
    /\ EnhanceEnabled

\* The message shown for the pipeline the last upload went to.
UploadError == IF ev.pipe = "enh" THEN error ELSE bgError

\* C6 as claimed: every file larger than 10 MiB, whatever its declared type, is
\* refused with the size-limit message.
C6_OversizedIsTooLarge ==
    (ev.op = "upload" /\ ev.file.size > 10 * 1024 * 1024)
        => UploadError = Some(<<"File size exceeds the ", "10", "MB limit.">>)

\* C6, amended: a file larger than 10 MiB is refused, with the size-limit message
\* when its declared type is an image type and with the invalid-image message
\* otherwise, and the source image, file, result, prompt and toggles stay as
\* they were and no preview read is started.
C6_OversizedIsRefused ==
    [][ (ev'.op = "upload" /\ ev'.file.size > 10 * 1024 * 1024) =>
          LET t == ev'.file.type
              expected == IF t # <<>> /\ t[1] = "image/"
                          THEN <<"File size exceeds the ", "10", "MB limit.">>
                          ELSE <<"Please upload a valid image file (JPG, PNG, WEBP).">>
          IN /\ reads' = reads
             /\ IF ev'.pipe = "enh"
                THEN /\ error' = Some(expected)
                     /\ UNCHANGED <<originalImage, imageFile, enhancedImage, enhSettings>>
                ELSE /\ bgError' = Some(expected)
                     /\ UNCHANGED <<bgOriginalImage, bgImageFile, bgRemovedImage>>
      ]_vars

\* An oversized image was refused while the pipeline already held a file.
C6_Witness ==
    /\ ev.op = "upload" /\ ev.pipe = "enh" /\ ev.outcome = "TooLarge"
    /\ ev.file.size > MAX_FILE_SIZE_BYTES
    /\ error = Some(TOO_LARGE_MSG)
    /\ imageFile # null

\* C7: a file whose declared type is not an image type is refused with the
\* invalid-image message; no preview read is started and the source image,
\* file, result, prompt and toggles stay as they were.
C7_NonImageIsInvalidType ==
    [][ (ev'.op = "upload" /\ ~(ev'.file.type # <<>> /\ ev'.file.type[1] = "image/")) =>
          /\ reads' = reads
          /\ IF ev'.pipe = "enh"
             THEN /\ error' = Some(<<"Please upload a valid image file (JPG, PNG, WEBP).">>)
                  /\ UNCHANGED <<originalImage, imageFile, enhancedImage, enhSettings>>
             ELSE /\ bgError' = Some(<<"Please upload a valid image file (JPG, PNG, WEBP).">>)
                  /\ UNCHANGED <<bgOriginalImage, bgImageFile, bgRemovedImage>>
      ]_vars

\* A text file was refused by the background remover while it already held a file.
C7_Witness ==
    /\ ev.op = "upload" /\ ev.pipe = "bg" /\ ev.outcome = "InvalidType"
    /\ ev.file.type = TEXT_PLAIN
    /\ bgError = Some(INVALID_TYPE_MSG)
    /\ bgImageFile # null

\* C8: only image/png, image/jpeg and image/webp files ever become a source.
C8_OnlyListedTypes ==
    /\ imageFile # null => imageFile[1].type \in {PNG, JPEG, WEBP}
    /\ bgImageFile # null => bgImageFile[1].type \in {PNG, JPEG, WEBP}
    /\ \A r \in BagToSet(reads) : r.file.type \in {PNG, JPEG, WEBP}


C10_Settings ==
    << [on |-> upscaleFactor # "none",
        text |-> <<" Increase the resolution of the image by ", upscaleFactor,
                   " while keeping details sharp and natural.">>],
       [on |-> isDeblurEnabled, text |-> DEBLUR_FRAGMENT],
       [on |-> isRestoreEnabled, text |-> RESTORE_FRAGMENT],
       [on |-> isFaceEnhancementEnabled, text |-> FACE_FRAGMENT] >>

RECURSIVE C10_Join(_)
C10_Join(settings) ==
    IF settings = <<>> THEN <<>>
    ELSE (IF Head(settings).on THEN Head(settings).text ELSE <<>>) \o C10_Join(Tail(settings))

\* How often the text occurs in s.
C10_Occurrences(s, text) ==
    Cardinality({i \in 1..Len(s) :
        i + Len(text) - 1 <= Len(s) /\ SubSeq(s, i, i + Len(text) - 1) = text})

\* C10: the instruction sent is the base prompt followed by the fragments of
\* exactly the active settings, each once, in the order resolution, deblur,
\* restoration, face; with nothing active it is the base prompt.
C10_PromptAssembly ==
    \A c \in EnhCalls :
        LET tail == SubSeq(c.text, Len(prompt) + 1, Len(c.text)) IN
        /\ SubSeq(c.text, 1, Len(prompt)) = prompt
        /\ tail = C10_Join(C10_Settings)
        /\ \A i \in 1..Len(C10_Settings) :
             C10_Occurrences(tail, C10_Settings[i].text)
                 = IF C10_Settings[i].on THEN 1 ELSE 0
        /\ (\A i \in 1..Len(C10_Settings) : ~C10_Settings[i].on) => c.text = prompt

\* The design's example: "Improve lighting", resolution 4x and restore on.
C10_Witness ==
    /\ prompt = <<"Improve lighting">> /\ upscaleFactor = "4x"
    /\ isRestoreEnabled /\ ~isDeblurEnabled /\ ~isFaceEnhancementEnabled
    /\ \E c \in EnhCalls :
         c.text = <<"Improve lighting", " Increase the resolution of the image by ", "4x",
                    " while keeping details sharp and natural.">> \o RESTORE_FRAGMENT


\* C11: the instruction a click sends is determined by the base prompt, the
\* multiplier and the three toggles as they stand at the click, whichever
\* setting was edited last and however often the settings were flipped before:
\* sessions that reach the same settings send the same instruction.
C11_HistoryIndependent ==
    [][ \A c \in EnhCalls' :
          CopiesIn(c, calls') > CopiesIn(c, calls)
              => c.text = prompt \o C10_Join(C10_Settings) ]_vars

\* Restore was switched on first and deblur after it, then Enhance was
\* clicked: the request carries the deblur block before the restoration block.
C11_Witness ==
    /\ ev.op = "enhance" /\ ev.started /\ ev.after = "isDeblurEnabled"
    /\ isRestoreEnabled /\ isDeblurEnabled
    /\ upscaleFactor = "none" /\ ~isFaceEnhancementEnabled
    /\ \E c \in EnhCalls : c.text = DEFAULT_PROMPT \o DEBLUR_FRAGMENT \o RESTORE_FRAGMENT


\* The inline data of the first segment carrying any, scanning from the head;
\* null when the list is missing or no segment carries inline data.
RECURSIVE C12_Scan(_)
C12_Scan(segments) ==
    IF segments = <<>> THEN null
    ELSE IF Head(segments).inlineData # null THEN Head(segments).inlineData
    ELSE C12_Scan(Tail(segments))

C12_FirstImage(response) ==
    IF response.parts = null THEN null ELSE C12_Scan(response.parts[1])

\* The responses of the model that carry inline image data.
C12_ImageResponses == {r \in Responses : C12_FirstImage(r) # null}

C13_ImagelessResponses == {r \in Responses : C12_FirstImage(r) = null}

C14_ReturnedText(r) ==
    IF r.text = null THEN <<"No text response.">>
    ELSE LET t == r.text[1]
             solid == {i \in 1..Len(t) : t[i] # " "}
         IN IF solid = {} THEN <<"No text response.">>
            ELSE SubSeq(t, CHOOSE i \in solid : \A j \in solid : i <= j,
                           CHOOSE i \in solid : \A j \in solid : i >= j)

C14_Reason(r) ==
    <<"The AI did not return an image. Response: \"">> \o C14_ReturnedText(r) \o <<"\"">>

\* C14: for every response without image data, whatever its text, the message
\* shown is the no-image reason built from the trimmed text, or from the
\* placeholder "No text response." when the text is absent or blank.
C14_NoImageReasonShown ==
    [][ (ev'.op = "response" /\ ev'.kind = "noimage" /\ calls' # calls) =>
        /\ \A c \in EnhCalls, r \in C13_ImagelessResponses :
             enhanceResolvesWith(c, r) =>
                 error' = Some(<<"An error occurred during enhancement: ">> \o C14_Reason(r))
        /\ \A c \in BgCalls, r \in C13_ImagelessResponses :
             removeResolvesWith(c, r) =>
                 bgError' = Some(<<"An error occurred: ">> \o C14_Reason(r))
      ]_vars


C16_Trigger ==
    /\ ev'.op \in {"enhance", "remove"}
    /\ ev'.started \/ (apiKeyReady /\ ~apiKeyReady')

C17_NamesCredential(e) ==
    \E i \in 1..Len(e.message) :
        e.message[i] \in {"API Key must be set", "Requested entity was not found"}

\* What is shown of any other thrown error: its message, or its string form
\* when the message is empty.
C17_Raw(e) == IF e.message = <<>> THEN e.string ELSE e.message

\* C17: a thrown call error whose message contains one of the two credential
\* substrings sets apiKeyReady false and shows the fixed invalid-key message,
\* in either pipeline; any other thrown error leaves apiKeyReady as it was and
\* is shown with its own message after the pipeline's prefix.
C17_CredentialErrorReauthenticates ==
    [][ (ev'.op = "response" /\ ev'.kind = "thrown" /\ calls' # calls) =>
        /\ \A c \in EnhCalls, e \in ThrownErrors :
             enhanceRejectsWith(c, e) =>
                 IF C17_NamesCredential(e)
                 THEN /\ apiKeyReady' = FALSE
                      /\ error' = Some(<<"Your API Key is not valid or has been revoked. Please select a new key to continue.">>)
                 ELSE /\ apiKeyReady' = apiKeyReady
                      /\ error' = Some(<<"An error occurred during enhancement: ">> \o C17_Raw(e))
        /\ \A c \in BgCalls, e \in ThrownErrors :
             removeRejectsWith(c, e) =>
                 IF C17_NamesCredential(e)
                 THEN /\ apiKeyReady' = FALSE
                      /\ bgError' = Some(<<"Your API Key is not valid or has been revoked. Please select a new key to continue.">>)
                 ELSE /\ apiKeyReady' = apiKeyReady
                      /\ bgError' = Some(<<"An error occurred: ">> \o C17_Raw(e))
      ]_vars

\* A call of the background remover threw: the key selector is shown
\* (apiKeyReady is false) and the pipeline carries the invalid-key message.
C17_Witness ==
    /\ ev.op = "response" /\ ev.pipe = "bg" /\ ev.kind = "thrown"
    /\ ~apiKeyReady /\ ~MainShown
    /\ bgError = Some(INVALID_KEY_MSG)


\* C18: a step of the enhance pipeline (upload, read completion, edit, click,
\* response, Reset) changes none of the remover's cells; a step of the remover
\* changes none of the enhancer's cells, prompt and toggles included; and a
\* mode switch changes neither pipeline.
C18_PipelinesIndependent ==
    [][ /\ ev'.pipe = "enh" => UNCHANGED bgVars
        /\ ev'.pipe = "bg" => UNCHANGED enhVars
        /\ activeMode' # activeMode => UNCHANGED <<enhVars, bgVars, asyncVars>>
      ]_vars

\* The enhancer was reset while the remover held a file and a preview and had
\* a request outstanding: the remover is as it was.
C18_Witness ==
    /\ ev.op = "reset" /\ ev.pipe = "enh"
    /\ bgIsLoading /\ bgImageFile # null /\ bgOriginalImage # null
    /\ Outstanding("bg") = 1

\* C19: invoking Reset again right after a Reset changes nothing: from the
\* state a Reset leaves, the handler's statements lead back to that state.
C19_ResetIdempotent ==
    /\ (ev.op = "reset" /\ ev.pipe = "enh") =>
         ENABLED (handleResetStatements
                  /\ UNCHANGED <<appVars, enhVars, bgVars, asyncVars, countVars>>)
    /\ (ev.op = "reset" /\ ev.pipe = "bg") =>
         ENABLED (handleBgResetStatements
                  /\ UNCHANGED <<appVars, enhVars, bgVars, asyncVars, countVars>>)

\* The remover was reset while its request was outstanding.
C19_Witness ==
    /\ ev.op = "reset" /\ ev.pipe = "bg"
    /\ Outstanding("bg") = 1 /\ BgState = "Empty"


C21_AbandonedAnswerIsDropped ==
    [][ /\ (ev'.op = "response" /\ ev'.pipe = "enh"
            /\ originalImage = null /\ imageFile = null /\ ~isLoading)
             => UNCHANGED <<originalImage, imageFile, enhancedImage, error, isLoading>>
        /\ (ev'.op = "response" /\ ev'.pipe = "bg"
            /\ bgOriginalImage = null /\ bgImageFile = null /\ ~bgIsLoading)
             => UNCHANGED <<bgOriginalImage, bgImageFile, bgRemovedImage, bgError, bgIsLoading>>
      ]_vars

\* The request a response step has settled: the one call whose count went down.
SettledCall(c) == CopiesIn(c, calls') < CopiesIn(c, calls)

\* C22: while the editor shows a source image, the answer to a request that was
\* sent for another file is recorded neither as the result nor as the error.
C22_DisplayedResultBelongsToSource ==
    [][ /\ (ev'.op = "response" /\ ev'.pipe = "enh" /\ originalImage # null /\ imageFile # null) =>
             \A c \in EnhCalls :
                (SettledCall(c) /\ c.image.inlineData.data # imageFile[1].data)
                    => UNCHANGED <<enhancedImage, error>>
        /\ (ev'.op = "response" /\ ev'.pipe = "bg" /\ bgOriginalImage # null /\ bgImageFile # null) =>
             \A c \in BgCalls :
                (SettledCall(c) /\ c.image.inlineData.data # bgImageFile[1].data)
                    => UNCHANGED <<bgRemovedImage, bgError>>
      ]_vars

\* C23: in every reachable state the loading flag of a pipeline is true exactly
\* when a call of that pipeline is outstanding.
C23_LoadingIffOutstanding ==
    /\ isLoading <=> Outstanding("enh") >= 1
    /\ bgIsLoading <=> Outstanding("bg") >= 1

\* C24: in every reachable state a pipeline never holds both an error message
\* and a result image.
C24_ErrorAndResultExclusive ==
    /\ ~(error # null /\ enhancedImage # null)
    /\ ~(bgError # null /\ bgRemovedImage # null)

\* The preview reads of a pipeline that have not ended yet.
PendingReads(pipe) == {r \in BagToSet(reads) : r.pipe = pipe}

\* C25: once no preview read of a pipeline is pending, the preview shown is
\* that of the file the pipeline holds, the one a request would send.
C25_PreviewIsOfHeldFile ==
    /\ (PendingReads("enh") = {} /\ imageFile # null /\ originalImage # null)
         => originalImage = PreviewOf(imageFile[1])
    /\ (PendingReads("bg") = {} /\ bgImageFile # null /\ bgOriginalImage # null)
         => bgOriginalImage = PreviewOf(bgImageFile[1])

\* C26: a request that was answered with a response, with or without an image
\* and whatever its text, leaves apiKeyReady as it was.
C26_AnsweredCallKeepsKey ==
    [][ (ev'.op = "response" /\ ev'.kind \in {"image", "noimage"}) =>
            apiKeyReady' = apiKeyReady
      ]_vars

\* C27: no enhancement request is sent while the trimmed prompt is empty, and
\* the prompt typed is what the request's text begins with; the Enhance button
\* is disabled while the trimmed prompt is empty; and handleEnhanceClick run
\* with an empty prompt changes neither the result, the error, the loading
\* flag nor the requests outstanding.
C27_NoCallWithBlankPrompt ==
    /\ [][ StartedCall("enh") =>
             /\ Len(prompt) > 0 /\ \E i \in 1..Len(prompt) : prompt[i] # " "
             /\ \E c \in BagToSet(calls') :
                  /\ CopiesIn(c, calls') > CopiesIn(c, calls)
                  /\ Len(c.text) >= Len(prompt)
                  /\ \A i \in 1..Len(prompt) : c.text[i] = prompt[i]
         ]_vars
    /\ [](((\A i \in 1..Len(prompt) : prompt[i] = " ") /\ EditorShown) => ~ENABLED handleEnhanceClick)
    /\ []((prompt = <<>>) =>
            ~ENABLED (handleEnhanceClickStatements
                      /\ ~UNCHANGED <<enhancedImage, error, isLoading, calls>>))

\* The user has typed a prompt of spaces only into the editor of a loaded,
\* idle pipeline.
C27_Witness ==
    /\ ev.op = "edit" /\ ev.what = "prompt"
    /\ prompt = <<" ">>
    /\ EditorShown /\ imageFile # null /\ ~isLoading
    /\ ~EnhanceEnabled

\* C28: a click that sends a new request from Succeeded or Failed sets the
\* loading flag and clears the result and the error in the same step; and
\* while the loading flag is set neither a result nor an error is held.
C28_NewRequestClearsOutcome ==
    /\ [][ /\ (StartedCall("enh") /\ EnhState \in {"Succeeded", "Failed"}) =>
                (isLoading' /\ enhancedImage' = null /\ error' = null)
           /\ (StartedCall("bg") /\ BgState \in {"Succeeded", "Failed"}) =>
                (bgIsLoading' /\ bgRemovedImage' = null /\ bgError' = null)
         ]_vars
    /\ [](isLoading => (enhancedImage = null /\ error = null))
    /\ [](bgIsLoading => (bgRemovedImage = null /\ bgError = null))

\* Remove Background was clicked again while the previous result was shown:
\* the request is outstanding and the result is gone.
C28_Witness ==
    /\ ev.op = "remove" /\ ev.started /\ ev.from = "Succeeded"
    /\ bgIsLoading /\ bgRemovedImage = null /\ bgError = null
    /\ Outstanding("bg") = 1

\* C29: in both pipelines an image file of exactly 10 * 1024 * 1024 bytes is
\* accepted (it becomes the pipeline's file and its preview read is started,
\* no message is set), and one of 10 * 1024 * 1024 + 1 bytes is refused with
\* the size-limit message and starts no read.
C29_LimitIsExclusive ==
    [][ (ev'.op = "upload" /\ activeMode' = activeMode
         /\ ev'.file.type # <<>> /\ ev'.file.type[1] = "image/") =>
          /\ ev'.file.size = 10 * 1024 * 1024 =>
               /\ CopiesIn([pipe |-> ev'.pipe, file |-> ev'.file], reads')
                    = CopiesIn([pipe |-> ev'.pipe, file |-> ev'.file], reads) + 1
               /\ IF ev'.pipe = "enh"
                  THEN imageFile' = Some(ev'.file) /\ error' = error
                  ELSE bgImageFile' = Some(ev'.file) /\ bgError' = bgError
          /\ ev'.file.size = 10 * 1024 * 1024 + 1 =>
               /\ reads' = reads
               /\ IF ev'.pipe = "enh"
                  THEN /\ error' = Some(<<"File size exceeds the ", "10", "MB limit.">>)
                       /\ imageFile' = imageFile
                  ELSE /\ bgError' = Some(<<"File size exceeds the ", "10", "MB limit.">>)
                       /\ bgImageFile' = bgImageFile
      ]_vars

\* The background remover has taken a file of exactly the limit, after the
\* enhancer refused one a byte larger.
C29_Witness ==
    /\ ev.op = "upload" /\ ev.pipe = "bg" /\ ev.outcome = "accepted"
    /\ ev.file.size = MAX_FILE_SIZE_BYTES
    /\ bgImageFile = Some(ev.file)
    /\ error = Some(TOO_LARGE_MSG)

====
